---- MODULE Spec2Model ----
(***************************************************************************)
(* pika-cli-client: the layered configuration (Config, get_config), the    *)
(* argument surface (make_config_argparser), credential resolution         *)
(* (get_creds, get_conn) and the publisher's main, as a state machine.     *)
(*                                                                         *)
(* Two specifications share the definitions of Config:                     *)
(*   SpecStore  one Config object under set / delete / get / load_dict /   *)
(*              construction and a dump_dict -> load_dict round trip;      *)
(*   Spec       one run of the publisher process, from get_config to exit. *)
(***************************************************************************)
EXTENDS Naturals, Sequences, FiniteSets, TLC

VARIABLES
    settings,    \* Config._settings of the Config under study: key -> value
    reloaded,    \* SpecStore: _settings of the Config rebuilt from dump_dict()
    last,        \* SpecStore: the last operation, its arguments and outcome
    nops,        \* SpecStore: number of operations performed
    pc,          \* Spec: position of the publisher process in main()
    configs,     \* Spec: get_config's local list of files, as read so far
    argv,        \* Spec: the command line given to parse_args: flag -> text
    args,        \* Spec: the argparse namespace
    creds,       \* Spec: what get_creds returned
    prompts,     \* Spec: the getpass.getpass() invocations, each with its outcome
    pwfile,      \* Spec: the password file get_creds opened, if any
    ssl_opts,    \* Spec: get_conn's ssl_options
    result,      \* Spec: what channel.basic_publish returned
    err,         \* Spec: the exception that ended the process, or "none"
    exit_code    \* Spec: the process exit status once pc = "exit"

storeVars == <<settings, reloaded, last, nops>>
runVars == <<pc, configs, argv, args, creds, prompts, pwfile, ssl_opts, result,
             err, exit_code>>
vars == <<settings, reloaded, last, nops, pc, configs, argv, args, creds,
          prompts, pwfile, ssl_opts, result, err, exit_code>>

----------------------------------------------------------------------------
(* Python values.  A value carries its type and its text, so that "5671"   *)
(* (str) and 5671 (int) differ and a conversion has something to do.       *)

None_ == [t |-> "NoneType", v |-> ""]
Str(s) == [t |-> "str", v |-> s]
Int(s) == [t |-> "int", v |-> s]
Bool(b) == [t |-> "bool", v |-> IF b THEN "True" ELSE "False"]
EmptyList == [t |-> "list", elems |-> <<>>]
Dict(f) == [t |-> "dict", items |-> f]
List(s) == [t |-> "list", elems |-> s]
EmptyMap == [x \in {} |-> None_]

\* No password file was opened.
NotRead == [read |-> FALSE, readable |-> FALSE, lines |-> <<>>]

\* Python truth value testing, as used by "if args.username" and friends.
Truthy(x) ==
    CASE x.t = "NoneType" -> FALSE
      [] x.t = "str" -> x.v # ""
      [] x.t = "int" -> x.v # "0"
      [] x.t = "bool" -> x.v = "True"
      [] x.t = "list" -> x.elems # <<>>
      [] x.t = "dict" -> DOMAIN x.items # {}

----------------------------------------------------------------------------
(* The closed schema.                                                       *)

\* The protocol names the ssl module of the build offers, sorted.
SSL_PROTOCOL_NAMES == <<"sslv23", "tlsv1", "tlsv1.1", "tlsv1.2">>

SSL_PROTOCOLS == {SSL_PROTOCOL_NAMES[i] : i \in DOMAIN SSL_PROTOCOL_NAMES}

DEFAULT_CONFIG ==
    ("auth.password" :> None_) @@
    ("auth.username" :> None_) @@
    ("conn.host" :> Str("localhost")) @@
    ("conn.port" :> Int("5672")) @@
    ("conn.vhost" :> Str("/")) @@
    ("ssl.ciphers" :> EmptyList) @@
    ("ssl.enable" :> Bool(TRUE)) @@
    ("ssl.version" :> Str(SSL_PROTOCOL_NAMES[Len(SSL_PROTOCOL_NAMES)])) @@
    ("logging.level" :> Str("INFO"))

\* sorted(self._defaults)
SortedKeys ==
    <<"auth.password", "auth.username", "conn.host", "conn.port", "conn.vhost",
      "logging.level", "ssl.ciphers", "ssl.enable", "ssl.version">>

\* '.'.join(parts)
RECURSIVE Dotted(_)
Dotted(parts) ==
    IF Len(parts) = 1 THEN parts[1]
    ELSE parts[1] \o "." \o Dotted(Tail(parts))

SectionNames == {"auth", "conn", "ssl", "logging", "bogus"}
OptionNames == {"password", "username", "host", "port", "vhost", "level",
                "ciphers", "enable", "version", "key"}

\* The dotted keys the model splits, each with the parts whose join it is.
SplitTable ==
    [key \in {Dotted(<<s, o>>) : s \in SectionNames, o \in OptionNames} |->
        CHOOSE parts \in {<<s, o>> : s \in SectionNames, o \in OptionNames} :
            Dotted(parts) = key]

\* key.split('.')
split(key) == SplitTable[key]

----------------------------------------------------------------------------
(* class Config.  An operation returns the new _settings and the exception  *)
(* it raised ("none" when it returned).                                     *)

Ok(self) == [settings |-> self, err |-> "none"]
Raise(self, e) == [settings |-> self, err |-> e]

\* Config.__getitem__
getitem(self, item) ==
    IF item \notin DOMAIN DEFAULT_CONFIG
    THEN [val |-> None_, err |-> "KeyError"]
    ELSE [val |-> IF item \in DOMAIN self THEN self[item]
                  ELSE DEFAULT_CONFIG[item],
          err |-> "none"]

\* __setitem__ without the schema test
setitem_unchecked(self, item, value) ==
    Ok((item :> value) @@ self)

\* Config.__setitem__
setitem(self, item, value) ==
    IF item \notin DOMAIN DEFAULT_CONFIG
    THEN Raise(self, "KeyError")
    ELSE Ok((item :> value) @@ self)

\* __delitem__ that leaves the entry in _settings
delitem_keeps(self, item) ==
    IF item \notin DOMAIN DEFAULT_CONFIG THEN Raise(self, "KeyError")
    ELSE IF item \notin DOMAIN self THEN Raise(self, "KeyError")
    ELSE Ok(self)

\* Config.__delitem__
delitem(self, item) ==
    IF item \notin DOMAIN DEFAULT_CONFIG THEN Raise(self, "KeyError")
    ELSE IF item \notin DOMAIN self THEN Raise(self, "KeyError")
    ELSE Ok([k \in DOMAIN self \ {item} |-> self[k]])

\* Config.__len__
len(self) == Cardinality(DOMAIN DEFAULT_CONFIG)

\* dict.get(p, dict()) on a node of the loaded structure
node_get(t, p) ==
    IF t.t # "dict" THEN [val |-> None_, err |-> "AttributeError"]
    ELSE [val |-> IF p \in DOMAIN t.items THEN t.items[p] ELSE Dict(EmptyMap),
          err |-> "none"]

\* "name in t": membership for a dict (keys) and a list (elements); a
\* TypeError for a value that is no container.
node_contains(t, name) ==
    CASE t.t = "dict" -> [val |-> name \in DOMAIN t.items, err |-> "none"]
      [] t.t = "list" -> [val |-> \E i \in DOMAIN t.elems : t.elems[i] = Str(name),
                          err |-> "none"]
      [] OTHER -> [val |-> FALSE, err |-> "TypeError"]

\* the walk "for p in parts[:-1]: t = t.get(p, dict())"
RECURSIVE walk(_, _)
walk(t, path) ==
    IF path = <<>> THEN [val |-> t, err |-> "none"]
    ELSE LET g == node_get(t, Head(path))
         IN IF g.err # "none" THEN g ELSE walk(g.val, Tail(path))

\* One iteration of load_dict's loop, for SortedKeys[i], then the rest.
RECURSIVE load_keys(_, _, _)
load_keys(self, dict_value, i) ==
    IF i > Len(SortedKeys) THEN Ok(self)
    ELSE LET key == SortedKeys[i]
             parts == split(key)
             leaf == parts[Len(parts)]
             w == walk(dict_value, SubSeq(parts, 1, Len(parts) - 1))
         IN IF w.err # "none" THEN Raise(self, w.err)
            ELSE LET c == node_contains(w.val, leaf)
                 IN IF c.err # "none" THEN Raise(self, c.err)
                    ELSE IF ~c.val THEN load_keys(self, dict_value, i + 1)
                    ELSE IF w.val.t # "dict" THEN Raise(self, "TypeError")
                    ELSE LET s == setitem(self, key, w.val.items[leaf])
                         IN IF s.err # "none" THEN s
                            ELSE load_keys(s.settings, dict_value, i + 1)

\* load_dict that skips a key already set, so that the first source wins
RECURSIVE load_keys_first_wins(_, _, _)
load_keys_first_wins(self, dict_value, i) ==
    IF i > Len(SortedKeys) THEN Ok(self)
    ELSE LET key == SortedKeys[i]
             parts == split(key)
             leaf == parts[Len(parts)]
             w == walk(dict_value, SubSeq(parts, 1, Len(parts) - 1))
         IN IF w.err # "none" THEN Raise(self, w.err)
            ELSE LET c == node_contains(w.val, leaf)
                 IN IF c.err # "none" THEN Raise(self, c.err)
                    ELSE IF ~c.val \/ key \in DOMAIN self
                    THEN load_keys_first_wins(self, dict_value, i + 1)
                    ELSE IF w.val.t # "dict" THEN Raise(self, "TypeError")
                    ELSE LET s == setitem(self, key, w.val.items[leaf])
                         IN IF s.err # "none" THEN s
                            ELSE load_keys_first_wins(s.settings, dict_value, i + 1)

load_dict_first_wins(self, dict_value) == load_keys_first_wins(self, dict_value, 1)

\* Config.load_dict
load_dict(self, dict_value) == load_keys(self, dict_value, 1)

\* dict.update(other) as MutableMapping does it: one __setitem__ per key
RECURSIVE update(_, _)
update(self, other) ==
    IF DOMAIN other = {} THEN Ok(self)
    ELSE LET k == CHOOSE x \in DOMAIN other : TRUE
             s == setitem(self, k, other[k])
         IN IF s.err # "none" THEN s
            ELSE update(s.settings, [x \in DOMAIN other \ {k} |-> other[x]])

\* Config.__init__
Config(d) == update(EmptyMap, d)

\* "t = t.setdefault(p, OrderedDict())" along the path, then "t[leaf] = value"
RECURSIVE node_set(_, _, _)
node_set(t, path, value) ==
    IF Len(path) = 1 THEN Dict((path[1] :> value) @@ t.items)
    ELSE LET child == IF path[1] \in DOMAIN t.items THEN t.items[path[1]]
                      ELSE Dict(EmptyMap)
         IN Dict((path[1] :> node_set(child, Tail(path), value)) @@ t.items)

RECURSIVE dump_keys(_, _, _)
dump_keys(self, dump, i) ==
    IF i > Len(SortedKeys) THEN dump
    ELSE dump_keys(self,
                   node_set(dump, split(SortedKeys[i]), getitem(self, SortedKeys[i]).val),
                   i + 1)

\* dump_dict that leaves out the keys whose value is None
RECURSIVE dump_keys_skip_none(_, _, _)
dump_keys_skip_none(self, dump, i) ==
    IF i > Len(SortedKeys) THEN dump
    ELSE dump_keys_skip_none(self,
            IF getitem(self, SortedKeys[i]).val = None_ THEN dump
            ELSE node_set(dump, split(SortedKeys[i]), getitem(self, SortedKeys[i]).val),
            i + 1)

dump_dict_skip_none(self) == dump_keys_skip_none(self, Dict(EmptyMap), 1)

\* Config.dump_dict
dump_dict(self) == dump_keys(self, Dict(EmptyMap), 1)

----------------------------------------------------------------------------
(* Inputs: configuration files.                                             *)

\* Largest number of leaves a generated configuration file holds.
MaxLeaves == 1

\* Schema leaves a configuration file may hold: <<section, option, value>>.
FileLeaves ==
    { <<"conn", "host", Str("mqhost")>>,
      <<"conn", "port", Int("5671")>>,
      <<"conn", "port", Str("5671")>>,
      <<"conn", "port", Str("amqp")>>,
      <<"conn", "vhost", Str("/test")>>,
      <<"ssl", "enable", Bool(FALSE)>>,
      <<"ssl", "version", Str("tlsv1.1")>>,
      <<"ssl", "version", Str("sslv9")>>,
      <<"auth", "username", Str("alice")>>,
      <<"auth", "password", Str("hunter2")>> }

LeafSets ==
    { L \in SUBSET FileLeaves :
        /\ Cardinality(L) <= MaxLeaves
        /\ \A a, b \in L : (a[1] = b[1] /\ a[2] = b[2]) => a = b }

\* The nested mapping that holds exactly the leaves of L.
MappingOf(L) ==
    Dict([s \in {l[1] : l \in L} |->
            Dict([o \in {l[2] : l \in {x \in L : x[1] = s}} |->
                    (CHOOSE l \in L : l[1] = s /\ l[2] = o)[3]])])

\* Documents that parse but are no nested mapping of mappings.
MalformedRoots ==
    { None_,                                           \* an empty document
      List(<<Str("conn")>>),                           \* a list at the root
      Dict("conn" :> None_),                           \* "conn:" with no body
      Dict("conn" :> List(<<Str("host")>>)),           \* "conn: [host]"
      Dict("ssl" :> List(<<Str("on")>>)),              \* "ssl: [on]"
      Dict(("auth" :> Dict("username" :> Str("alice"))) @@ ("ssl" :> Int("1"))) }

\* Leaves outside the schema: an unknown option and an unknown section.
UnknownLeaves == {<<"conn", "bogus", Str("x")>>, <<"bogus", "key", Str("x")>>}

WellFormedRoots == {MappingOf(L) : L \in LeafSets} \cup {MappingOf(UnknownLeaves)}

File(exists, parses, root) == [exists |-> exists, parses |-> parses, root |-> root]

Files ==
    {File(FALSE, FALSE, None_), File(TRUE, FALSE, None_)}
    \cup {File(TRUE, TRUE, r) : r \in WellFormedRoots \cup MalformedRoots}

----------------------------------------------------------------------------
(* SpecStore: one Config object and the operations of its interface.        *)

\* Largest number of operations applied to the Config.
MaxOps == 4

\* Keys the operations are applied to: schema keys and keys outside it.
StoreKeys == {"conn.host", "auth.password", "ssl.enable", "bogus.key", "bogus"}
StoreValues == {None_, Str("mqhost")}
\* Mappings given to load_dict.
StoreDicts ==
    { MappingOf({<<"conn", "host", Str("mqhost")>>}),
      MappingOf({<<"conn", "host", Str("other")>>, <<"auth", "password", Str("hunter2")>>}),
      MappingOf({<<"ssl", "enable", Bool(FALSE)>>, <<"bogus", "key", Str("x")>>}),
      MappingOf(UnknownLeaves) }
    \cup {r \in MalformedRoots : r.t = "dict"}
InitDicts ==
    { EmptyMap,
      "conn.host" :> Str("mqhost"),
      "bogus.key" :> Str("x"),
      ("conn.port" :> Int("5671")) @@ ("bogus.key" :> Str("x")) }

Op(op, key, val, src, e) == [op |-> op, key |-> key, val |-> val, src |-> src, err |-> e]

RunInit ==
    /\ pc = "get_config"
    /\ configs = <<>>
    /\ argv = EmptyMap
    /\ args = EmptyMap
    /\ creds = None_
    /\ prompts = <<>>
    /\ pwfile = NotRead
    /\ ssl_opts = EmptyMap
    /\ result = None_
    /\ err = "none"
    /\ exit_code = 0

StoreInit ==
    /\ settings = EmptyMap
    /\ reloaded = EmptyMap
    /\ last = Op("init", "", None_, None_, "none")
    /\ nops = 0

Init == StoreInit /\ RunInit

\* c[k] = v
Set(k, v) ==
    /\ nops < MaxOps
    /\ LET r == setitem(settings, k, v)
       IN /\ settings' = r.settings
          /\ last' = Op("set", k, v, None_, r.err)
    /\ nops' = nops + 1
    /\ UNCHANGED <<reloaded, runVars>>

\* del c[k]
Delete(k) ==
    /\ nops < MaxOps
    /\ LET r == delitem(settings, k)
       IN /\ settings' = r.settings
          /\ last' = Op("delete", k, None_, None_, r.err)
    /\ nops' = nops + 1
    /\ UNCHANGED <<reloaded, runVars>>

\* c[k]
Get(k) ==
    /\ nops < MaxOps
    /\ LET r == getitem(settings, k)
       IN last' = Op("get", k, r.val, None_, r.err)
    /\ nops' = nops + 1
    /\ UNCHANGED <<settings, reloaded, runVars>>

\* c.load_dict(src)
LoadDict(src) ==
    /\ nops < MaxOps
    /\ LET r == load_dict(settings, src)
       IN /\ settings' = r.settings
          /\ last' = Op("load_dict", "", None_, src, r.err)
    /\ nops' = nops + 1
    /\ UNCHANGED <<reloaded, runVars>>

\* c = Config(d): the name is rebound only when the constructor returns
Construct(d) ==
    /\ nops < MaxOps
    /\ LET r == Config(d)
       IN /\ settings' = IF r.err = "none" THEN r.settings ELSE settings
          /\ last' = Op("init", "", None_, Dict(d), r.err)
    /\ nops' = nops + 1
    /\ UNCHANGED <<reloaded, runVars>>

\* r = Config(); r.load_dict(c.dump_dict())
RoundTrip ==
    /\ nops < MaxOps
    /\ LET d == dump_dict(settings)
           r == load_dict(Config(EmptyMap).settings, d)
       IN /\ reloaded' = r.settings
          /\ last' = Op("roundtrip", "", None_, d, r.err)
    /\ nops' = nops + 1
    /\ UNCHANGED <<settings, runVars>>

StoreNext ==
    \/ \E k \in StoreKeys, v \in StoreValues : Set(k, v)
    \/ \E k \in StoreKeys : Delete(k)
    \/ \E k \in StoreKeys : Get(k)
    \/ \E src \in StoreDicts : LoadDict(src)
    \/ \E d \in InitDicts : Construct(d)
    \/ RoundTrip

SpecStore == Init /\ [][StoreNext]_vars

----------------------------------------------------------------------------
(* Spec: one run of the publisher, publisher.main().                        *)

\* The process ends on an uncaught exception (status 1), on argparse's
\* usage error (status 2) or on SystemExit(message) (status 1).
Crash(e, code) ==
    /\ pc' = "exit"
    /\ err' = e
    /\ exit_code' = code

\* read_config(filename), called on a path for which isfile() held
read_config(f) ==
    IF ~f.exists THEN [val |-> Dict(EmptyMap), err |-> "none"]
    ELSE IF ~f.parses THEN [val |-> Dict(EmptyMap), err |-> "YAMLError"]
    ELSE IF f.root.t = "dict" THEN [val |-> f.root, err |-> "none"]
    ELSE [val |-> Dict(EmptyMap), err |-> "none"]

\* The paths get_config(custom='config.yml') collects: system, user, custom.
NumConfigs == 3

\* get_config: one iteration of "for path in configs", f being the file at
\* the path; an exception leaves the loop and ends the process.
GetConfigRead(f) ==
    /\ pc = "get_config"
    /\ Len(configs) < NumConfigs
    /\ configs' = Append(configs, f)
    /\ IF ~f.exists
       THEN /\ settings' = settings
            /\ UNCHANGED <<pc, err, exit_code>>
       ELSE LET r == read_config(f)
                l == load_dict(settings, r.val)
            IN IF r.err # "none"
               THEN settings' = settings /\ Crash(r.err, 1)
               ELSE /\ settings' = l.settings
                    /\ IF l.err # "none" THEN Crash(l.err, 1)
                       ELSE UNCHANGED <<pc, err, exit_code>>
    /\ UNCHANGED <<reloaded, last, nops, argv, args, creds, prompts, pwfile,
                   ssl_opts, result>>

\* get_config returns config; its local list of paths is gone.
GetConfigReturn ==
    /\ pc = "get_config"
    /\ Len(configs) = NumConfigs
    /\ pc' = "parse_args"
    /\ configs' = <<>>
    /\ UNCHANGED <<storeVars, argv, args, creds, prompts, pwfile, ssl_opts,
                   result, err, exit_code>>

----------------------------------------------------------------------------
(* make_config_argparser and parse_args.                                    *)

\* Decimal texts int() accepts, among the texts the inputs use.
IntLiterals == {"0", "5671", "5672"}

\* int(x) for a str x, as argparse's type=int applies it
int(x) ==
    IF x.t = "str" /\ x.v \in IntLiterals
    THEN [val |-> Int(x.v), err |-> "none"]
    ELSE [val |-> None_, err |-> "ValueError"]

\* default=DEFAULT_CONFIG[key]: the built-in default, whatever was merged
parser_default_builtin(config, key) == DEFAULT_CONFIG[key]

\* default=config[key] of an add_argument call
parser_default(config, key) == getitem(config, key).val

\* Flags of the shared surface and the texts the command line may give them.
ArgvChoices ==
    { <<"hostname", Str("override")>>,
      <<"port", Str("5671")>>,
      <<"port", Str("amqp")>>,
      <<"vhost", Str("/prod")>>,
      <<"ssl", None_>>,
      <<"no_ssl", None_>>,
      <<"ssl_version", Str("tlsv1")>>,
      <<"ssl_version", Str("sslv9")>>,
      <<"username", Str("bob")>>,
      <<"username", Str("")>>,
      <<"password", Str("secret")>>,
      <<"password_file", Str("pw.txt")>>,
      <<"log_level", Str("WARNING")>> }

\* Largest number of flags on a generated command line.
MaxFlags == 1

Argvs ==
    { [f \in {c[1] : c \in A} |-> (CHOOSE c \in A : c[1] = f)[2]] :
        A \in { B \in SUBSET ArgvChoices :
                  /\ Cardinality(B) <= MaxFlags
                  /\ \A a, b \in B : a[1] = b[1] => a = b } }

\* A flag's value when the flag is absent: the default, which argparse passes
\* through the argument's type when the default is a str.
absent_port(d) == IF d.t = "str" THEN int(d) ELSE [val |-> d, err |-> "none"]

\* parser.parse_args(av) on the parser make_config_argparser(config) built
parse_args(config, av) ==
    LET given == DOMAIN av
        port == IF "port" \in given THEN int(av["port"])
                ELSE absent_port(parser_default(config, "conn.port"))
        usage ==
            \/ port.err # "none"
            \/ "ssl_version" \in given /\ av["ssl_version"].v \notin SSL_PROTOCOLS
            \/ {"ssl", "no_ssl"} \subseteq given
            \/ {"password", "password_file"} \subseteq given
    IN [err |-> IF usage THEN "usage" ELSE "none",
        args |->
          [host |-> IF "hostname" \in given THEN av["hostname"]
                    ELSE parser_default(config, "conn.host"),
           port |-> port.val,
           vhost |-> IF "vhost" \in given THEN av["vhost"]
                     ELSE parser_default(config, "conn.vhost"),
           ssl |-> IF "ssl" \in given THEN Bool(TRUE)
                   ELSE IF "no_ssl" \in given THEN Bool(FALSE)
                   ELSE parser_default(config, "ssl.enable"),
           ssl_version |-> IF "ssl_version" \in given THEN av["ssl_version"]
                           ELSE parser_default(config, "ssl.version"),
           username |-> IF "username" \in given THEN av["username"]
                        ELSE parser_default(config, "auth.username"),
           password |-> IF "password" \in given THEN av["password"]
                        ELSE parser_default(config, "auth.password"),
           password_file |-> IF "password_file" \in given THEN av["password_file"]
                             ELSE None_,
           log_level |-> IF "log_level" \in given THEN av["log_level"]
                         ELSE parser_default(config, "logging.level")]]

\* Level names logging.Logger.setLevel accepts.
LevelNames == {"CRITICAL", "ERROR", "WARNING", "INFO", "DEBUG", "NOTSET"}

\* config.setup_logging(args): root.setLevel(args.log_level)
setup_logging(a) ==
    IF a.log_level.t = "int" \/ (a.log_level.t = "str" /\ a.log_level.v \in LevelNames)
    THEN "none"
    ELSE "ValueError"

\* main: parser = make_parser(conf); args = parser.parse_args(args);
\* config.setup_logging(args)
ParseArgs(av) ==
    /\ pc = "parse_args"
    /\ argv' = av
    /\ LET r == parse_args(settings, av)
       IN IF r.err # "none"
          THEN Crash(r.err, 2) /\ args' = args
          ELSE /\ args' = r.args
               /\ IF setup_logging(r.args) # "none"
                  THEN Crash(setup_logging(r.args), 1)
                  ELSE pc' = "get_conn" /\ UNCHANGED <<err, exit_code>>
    /\ UNCHANGED <<storeVars, configs, creds, prompts, pwfile, ssl_opts, result>>

----------------------------------------------------------------------------
(* get_creds and get_conn.                                                  *)

\* A line of text is a sequence of chunks: blanks and words.
Whitespace == {" ", "\t", "\n"}

\* fp.readline(): the first line with its newline, '' at end of file
readline(lines) == IF lines = <<>> THEN <<>> ELSE Append(lines[1], "\n")

RECURSIVE lstrip(_)
lstrip(chunks) ==
    IF chunks # <<>> /\ Head(chunks) \in Whitespace THEN lstrip(Tail(chunks))
    ELSE chunks

RECURSIVE rstrip(_)
rstrip(chunks) ==
    IF chunks # <<>> /\ chunks[Len(chunks)] \in Whitespace
    THEN rstrip(SubSeq(chunks, 1, Len(chunks) - 1))
    ELSE chunks

RECURSIVE text(_)
text(chunks) == IF chunks = <<>> THEN "" ELSE Head(chunks) \o text(Tail(chunks))

\* passwd.strip()
strip(chunks) == Str(text(rstrip(lstrip(chunks))))

\* Password files: whether open() succeeds, and the lines.
PasswordFile(readable, lines) == [readable |-> readable, lines |-> lines]

PasswordFiles ==
    { PasswordFile(FALSE, <<>>),
      PasswordFile(TRUE, <<>>),
      PasswordFile(TRUE, << <<"topsecret">> >>),
      PasswordFile(TRUE, << <<" ", "top", " ", "secret", "\t">> >>),
      PasswordFile(TRUE, << <<>>, <<"second">> >>),
      PasswordFile(TRUE, << <<" ">> >>),
      PasswordFile(TRUE, << <<"first">>, <<"second">> >>) }

\* What getpass.getpass() does: return a text, or raise.
Prompt(ok, txt) == [ok |-> ok, text |-> txt]

PromptOutcomes == {Prompt(FALSE, ""), Prompt(TRUE, "secret"), Prompt(TRUE, "")}

PlainCredentials(username, password) ==
    [t |-> "PlainCredentials", username |-> username, password |-> password]

Creds(a, read, asked, c, e) ==
    [args |-> a, read |-> read, asked |-> asked, creds |-> c, err |-> e]

\* the prompt under "if args.username" alone
creds_prompt_always(a1, read, pr) ==
    IF Truthy(a1.username)
    THEN IF ~pr.ok THEN Creds(a1, read, <<pr>>, None_, "SystemExit")
         ELSE LET a2 == [a1 EXCEPT !.password = Str(pr.text)]
              IN Creds(a2, read, <<pr>>,
                       PlainCredentials(a2.username, a2.password), "none")
    ELSE Creds(a1, read, <<>>,
               IF Truthy(a1.username) \/ Truthy(a1.password)
               THEN PlainCredentials(a1.username, a1.password)
               ELSE None_,
               "none")

\* credentials under "if args.username and args.password"
creds_prompt_both(a1, read, pr) ==
    IF Truthy(a1.username) /\ ~Truthy(a1.password)
    THEN IF ~pr.ok THEN Creds(a1, read, <<pr>>, None_, "SystemExit")
         ELSE LET a2 == [a1 EXCEPT !.password = Str(pr.text)]
              IN Creds(a2, read, <<pr>>,
                       IF Truthy(a2.username) /\ Truthy(a2.password)
                       THEN PlainCredentials(a2.username, a2.password)
                       ELSE None_,
                       "none")
    ELSE Creds(a1, read, <<>>,
               IF Truthy(a1.username) /\ Truthy(a1.password)
               THEN PlainCredentials(a1.username, a1.password)
               ELSE None_,
               "none")

\* get_creds, from the password (a1, after the password file) on
creds_prompt(a1, read, pr) ==
    IF Truthy(a1.username) /\ ~Truthy(a1.password)
    THEN IF ~pr.ok THEN Creds(a1, read, <<pr>>, None_, "SystemExit")
         ELSE LET a2 == [a1 EXCEPT !.password = Str(pr.text)]
              IN Creds(a2, read, <<pr>>,
                       IF Truthy(a2.username) \/ Truthy(a2.password)
                       THEN PlainCredentials(a2.username, a2.password)
                       ELSE None_,
                       "none")
    ELSE Creds(a1, read, <<>>,
               IF Truthy(a1.username) \/ Truthy(a1.password)
               THEN PlainCredentials(a1.username, a1.password)
               ELSE None_,
               "none")

\* get_creds(args): pf is the file at args.password_file, pr what getpass does
get_creds(a, pf, pr) ==
    IF Truthy(a.password_file)
    THEN IF ~pf.readable THEN Creds(a, FALSE, <<>>, None_, "SystemExit")
         ELSE LET passwd == readline(pf.lines)
              IN creds_prompt(
                    IF Truthy(strip(passwd)) THEN [a EXCEPT !.password = strip(passwd)]
                    ELSE a,
                    TRUE, pr)
    ELSE creds_prompt(a, FALSE, pr)

\* get_conn(args): creds = get_creds(args), then the ssl options and the
\* ConnectionParameters
GetConn(pf, pr) ==
    /\ pc = "get_conn"
    /\ LET r == get_creds(args, pf, pr)
       IN /\ args' = r.args
          /\ creds' = r.creds
          /\ prompts' = r.asked
          /\ pwfile' = IF Truthy(args.password_file)
                       THEN [read |-> r.read, readable |-> pf.readable,
                             lines |-> pf.lines]
                       ELSE NotRead
          /\ IF r.err # "none"
             THEN ssl_opts' = ssl_opts /\ Crash(r.err, 1)
             ELSE IF ~Truthy(args.ssl_version)
             THEN /\ ssl_opts' = EmptyMap
                  /\ pc' = "publish"
                  /\ UNCHANGED <<err, exit_code>>
             ELSE IF args.ssl_version.t = "str" /\ args.ssl_version.v \in SSL_PROTOCOLS
             THEN /\ ssl_opts' = ("ssl_version" :> args.ssl_version.v)
                  /\ pc' = "publish"
                  /\ UNCHANGED <<err, exit_code>>
             ELSE ssl_opts' = ssl_opts /\ Crash("KeyError", 1)
    /\ UNCHANGED <<storeVars, configs, argv, result>>

----------------------------------------------------------------------------
(* publisher.main from the connection on.  confirm_callback is registered   *)
(* nowhere (channel.confirm_delivery() is commented out), so no step of the *)
(* process runs it.                                                         *)

\* What the broker side does: the connection fails, basic_publish raises, or
\* basic_publish returns a truth value.
PublishOutcomes == {"AMQPConnectionError", "AMQPError", "True", "False"}

\* conn = pika.BlockingConnection(...); result = channel.basic_publish(...);
\* conn.close(); the log line; main returns and the interpreter exits with 0.
Publish(outcome) ==
    /\ pc = "publish"
    /\ IF outcome \notin {"True", "False"}
       THEN result' = result /\ Crash(outcome, 1)
       ELSE /\ result' = Bool(outcome = "True")
            /\ pc' = "exit"
            /\ exit_code' = 0
            /\ err' = "none"
    /\ UNCHANGED <<storeVars, configs, argv, args, creds, prompts, pwfile, ssl_opts>>

Next ==
    \/ \E f \in Files : GetConfigRead(f)
    \/ GetConfigReturn
    \/ \E av \in Argvs : ParseArgs(av)
    \/ \E pf \in PasswordFiles, pr \in PromptOutcomes : GetConn(pf, pr)
    \/ \E outcome \in PublishOutcomes : Publish(outcome)

Spec == Init /\ [][Next]_vars

----------------------------------------------------------------------------
(* Properties of get_config and the Config store.                           *)

\* Whether file f, as a source, defines the leaf of dotted key k.
DefinesLeaf(f, k) ==
    /\ f.exists /\ f.parses /\ f.root.t = "dict"
    /\ split(k)[1] \in DOMAIN f.root.items
    /\ f.root.items[split(k)[1]].t = "dict"
    /\ split(k)[2] \in DOMAIN f.root.items[split(k)[1]].items

LeafValue(f, k) == f.root.items[split(k)[1]].items[split(k)[2]]

\* Position of the last of the files fs that defines k's leaf, 0 when none.
LastDefining(fs, k) ==
    IF \E i \in DOMAIN fs : DefinesLeaf(fs[i], k)
    THEN CHOOSE i \in DOMAIN fs :
            /\ DefinesLeaf(fs[i], k)
            /\ \A j \in DOMAIN fs : DefinesLeaf(fs[j], k) => j <= i
    ELSE 0

\* C1: while get_config merges its sources (after zero, one, two or all
\* three of them), every schema key reads as the value of the last source
\* read so far that defines its leaf, and as the schema default when none
\* does; so a source that does not define a key leaves its value as it was.
C1_LaterSourceWins ==
    pc = "get_config" =>
        \A k \in DOMAIN DEFAULT_CONFIG :
            getitem(settings, k).val =
                IF LastDefining(configs, k) = 0 THEN DEFAULT_CONFIG[k]
                ELSE LeafValue(configs[LastDefining(configs, k)], k)

\* Three sources merged: the first and the third define conn.port with
\* different values, the second does not define it, and the third's is read.
C1_Witness ==
    /\ pc = "get_config"
    /\ Len(configs) = NumConfigs
    /\ DefinesLeaf(configs[1], "conn.port")
    /\ ~DefinesLeaf(configs[2], "conn.port")
    /\ DefinesLeaf(configs[3], "conn.port")
    /\ LeafValue(configs[1], "conn.port") # LeafValue(configs[3], "conn.port")
    /\ getitem(settings, "conn.port").val = LeafValue(configs[3], "conn.port")
    /\ getitem(settings, "conn.host").val = DEFAULT_CONFIG["conn.host"]

\* C5: no configuration file ends the process: whatever the files hold,
\* get_config is still running or has returned.
C5_ConfigFileNeverFails ==
    configs # <<>> => (pc = "get_config" /\ err = "none")

\* The value parse_args gives a field whose flag is on the command line.
FlagValue(field) ==
    CASE field = "host" -> argv["hostname"]
      [] field = "port" -> Int(argv["port"].v)
      [] field = "vhost" -> argv["vhost"]
      [] field = "ssl" -> Bool("ssl" \in DOMAIN argv)
      [] field = "ssl_version" -> argv["ssl_version"]
      [] field = "username" -> argv["username"]
      [] field = "password" -> argv["password"]
      [] field = "log_level" -> argv["log_level"]

\* The flags that set a field, and the Config key that is its default.
FieldFlags ==
    [host |-> {"hostname"}, port |-> {"port"}, vhost |-> {"vhost"},
     ssl |-> {"ssl", "no_ssl"}, ssl_version |-> {"ssl_version"},
     username |-> {"username"}, password |-> {"password"},
     log_level |-> {"log_level"}]

FieldKey ==
    [host |-> "conn.host", port |-> "conn.port", vhost |-> "conn.vhost",
     ssl |-> "ssl.enable", ssl_version |-> "ssl.version",
     username |-> "auth.username", password |-> "auth.password",
     log_level |-> "logging.level"]

FlagGiven(field) == FieldFlags[field] \cap DOMAIN argv # {}

\* C2 as stated: once the command line is parsed, each of the eight fields
\* is the command-line value when its flag is given and the merged Config
\* value of its key when the flag is absent.
C2_FlagElseConfigValue ==
    pc = "get_conn" =>
        \A field \in DOMAIN FieldKey :
            args[field] = IF FlagGiven(field) THEN FlagValue(field)
                          ELSE getitem(settings, FieldKey[field]).val

\* C2 as amended: as stated, except that an absent --port yields int() of
\* the merged conn.port when that value is a str.
C2_FlagElseConvertedConfigValue ==
    pc = "get_conn" =>
        \A field \in DOMAIN FieldKey :
            args[field] =
                IF FlagGiven(field) THEN FlagValue(field)
                ELSE IF field = "port" /\ getitem(settings, "conn.port").val.t = "str"
                THEN Int(getitem(settings, "conn.port").val.v)
                ELSE getitem(settings, FieldKey[field]).val

\* A file set conn.port to the str "5671", the command line gives a host
\* and no port: the host is the flag's, the port the int 5671.
C2_Witness ==
    /\ pc = "get_conn"
    /\ "hostname" \in DOMAIN argv
    /\ args.host = Str("override")
    /\ getitem(settings, "conn.host").val # Str("override")
    /\ "port" \notin DOMAIN argv
    /\ getitem(settings, "conn.port").val = Str("5671")
    /\ args.port = Int("5671")

\* C10: every TLS version that reaches get_conn is a member of SSL_PROTOCOLS.
C10_TlsVersionSupported ==
    pc = "get_conn" =>
        (args.ssl_version.t = "str" /\ args.ssl_version.v \in SSL_PROTOCOLS)

\* C6: the publisher exits with 0 only when basic_publish returned a true
\* result, and with a non-zero status when it returned a false result or the
\* publish raised.
C6_ExitCodeReflectsDelivery ==
    pc = "exit" =>
        /\ (exit_code = 0 => result = Bool(TRUE))
        /\ (result = Bool(FALSE) => exit_code # 0)
        /\ (err \in {"AMQPConnectionError", "AMQPError"} => exit_code # 0)

----------------------------------------------------------------------------
(* Properties of credential resolution.                                     *)

\* The namespace as parse_args left it, before get_creds wrote to it.
ParsedArgs == parse_args(settings, argv).args

\* get_creds has returned (the process went on, whatever happened later).
CredsResolved ==
    \/ pc = "publish"
    \/ pc = "exit" /\ err \in {"none", "KeyError", "AMQPConnectionError", "AMQPError"}

\* Position of the first line that is not blank, 0 when every line is blank.
FirstNonBlank(lines) ==
    IF \E i \in DOMAIN lines : Truthy(strip(lines[i]))
    THEN CHOOSE i \in DOMAIN lines :
            /\ Truthy(strip(lines[i]))
            /\ \A j \in DOMAIN lines : Truthy(strip(lines[j])) => i <= j
    ELSE 0

\* C7 as stated: once get_creds has read a password file, the password is the
\* file's first non-blank line and the prompt was not invoked.
C7_PasswordIsFirstNonBlankLine ==
    pwfile.read =>
        /\ prompts = <<>>
        /\ FirstNonBlank(pwfile.lines) # 0 =>
              args.password = strip(pwfile.lines[FirstNonBlank(pwfile.lines)])

\* C7 as amended: once get_creds has read a password file, only the first
\* line counts: when it is not blank the password is that line stripped and
\* the prompt was not invoked; when it is blank (or the file is empty) the
\* prompt was invoked exactly when a username is set and no password was
\* parsed, and without a prompt the password is the parsed one.
C7_PasswordIsFirstLine ==
    pwfile.read =>
        IF Truthy(strip(readline(pwfile.lines)))
        THEN /\ args.password = strip(readline(pwfile.lines))
             /\ prompts = <<>>
        ELSE /\ prompts # <<>> <=>
                    (Truthy(ParsedArgs.username) /\ ~Truthy(ParsedArgs.password))
             /\ prompts = <<>> => args.password = ParsedArgs.password

\* A username is set, the file's first line is " top secret\t": the password
\* is "top secret" and nothing was prompted.
C7_Witness ==
    /\ pwfile.read
    /\ pwfile.lines = << <<" ", "top", " ", "secret", "\t">> >>
    /\ Truthy(args.username)
    /\ args.password = Str("top secret")
    /\ prompts = <<>>
    /\ pc = "publish"

\* C8: once get_creds has returned, the credentials are absent exactly when
\* neither the username nor the password is set, and are the pair (username,
\* password) otherwise; when a username was parsed, with no password and no
\* password file, the prompt was invoked once and the credentials are the
\* pair (username, prompted password).
C8_CredentialsAbsentIffNothingSet ==
    CredsResolved =>
        /\ creds = None_ <=> (~Truthy(args.username) /\ ~Truthy(args.password))
        /\ creds # None_ => creds = PlainCredentials(args.username, args.password)
        /\ ( /\ Truthy(ParsedArgs.username)
             /\ ~Truthy(ParsedArgs.password)
             /\ ~Truthy(ParsedArgs.password_file) ) =>
                /\ Len(prompts) = 1
                /\ prompts[1].ok
                /\ creds = PlainCredentials(ParsedArgs.username, Str(prompts[1].text))

\* --username bob, no password anywhere, the prompt returns "secret".
C8_Witness ==
    /\ pc = "publish"
    /\ argv = ("username" :> Str("bob"))
    /\ ~Truthy(ParsedArgs.password)
    /\ prompts = <<Prompt(TRUE, "secret")>>
    /\ creds = PlainCredentials(Str("bob"), Str("secret"))

----------------------------------------------------------------------------
(* Properties of the Config store (SpecStore).                              *)

\* A step that applied operation op to the Config.
Did(op) == nops' = nops + 1 /\ last'.op = op

\* C3 as stated: after a delete of a schema key, whatever the state before,
\* the delete has succeeded and the key reads as its schema default; the
\* length is that of the schema.
C3_DeleteAlwaysSucceeds ==
    (last.op = "delete" /\ last.key \in DOMAIN DEFAULT_CONFIG) =>
        /\ last.err = "none"
        /\ getitem(settings, last.key) = [val |-> DEFAULT_CONFIG[last.key], err |-> "none"]
        /\ len(settings) = Cardinality(DOMAIN DEFAULT_CONFIG)

\* C3 as amended: a delete of a schema key succeeds exactly when the key is
\* set at that moment; a delete that fails changes nothing; either way the
\* key then reads as its schema default; every set and every delete leaves
\* len(Config) as it was.
C3_DeleteSucceedsIffSet ==
    [][ /\ (Did("delete") /\ last'.key \in DOMAIN DEFAULT_CONFIG) =>
            /\ last'.err = "none" <=> last'.key \in DOMAIN settings
            /\ last'.err # "none" => settings' = settings
            /\ getitem(settings', last'.key) =
                    [val |-> DEFAULT_CONFIG[last'.key], err |-> "none"]
        /\ (Did("delete") \/ Did("set")) => len(settings') = len(settings)
      ]_vars

\* conn.host was set to a value other than its default and then deleted.
C3_Witness ==
    /\ last.op = "delete"
    /\ last.key = "conn.host"
    /\ last.err = "none"
    /\ "conn.host" \notin DOMAIN settings
    /\ "ssl.enable" \in DOMAIN settings

\* Whether every section of a mapping is a mapping.
SectionsAreMappings(src) ==
    src.t = "dict" /\ \A sec \in DOMAIN src.items : src.items[sec].t = "dict"

\* C4: get, set and delete on a key outside the schema raise KeyError and
\* leave the store as it was; a constructor given such a key raises KeyError;
\* load_dict of a nested mapping returns without error whatever leaves it
\* holds; and no key outside the schema is ever in the store.
C4_ClosedSchema ==
    /\ [](DOMAIN settings \subseteq DOMAIN DEFAULT_CONFIG)
    /\ [][ /\ ( /\ Did("get") \/ Did("set") \/ Did("delete")
                /\ last'.key \notin DOMAIN DEFAULT_CONFIG ) =>
                    (last'.err = "KeyError" /\ settings' = settings)
           /\ ( /\ Did("init")
                /\ ~(DOMAIN last'.src.items \subseteq DOMAIN DEFAULT_CONFIG) ) =>
                    (last'.err = "KeyError" /\ settings' = settings)
           /\ (Did("load_dict") /\ SectionsAreMappings(last'.src)) =>
                    last'.err = "none"
         ]_vars

\* A set on "bogus.key" was refused on a store that holds settings.
C4_Witness ==
    /\ last.op = "set"
    /\ last.key = "bogus.key"
    /\ last.err = "KeyError"
    /\ settings # EmptyMap
    /\ DOMAIN settings \subseteq DOMAIN DEFAULT_CONFIG

\* C9: after c.dump_dict() is loaded into a fresh Config, the fresh Config
\* reads, for every schema key, the value c reads.
C9_DumpLoadRoundTrip ==
    last.op = "roundtrip" =>
        /\ last.err = "none"
        /\ \A k \in DOMAIN DEFAULT_CONFIG : getitem(reloaded, k) = getitem(settings, k)

\* A round trip of a store in which conn.host is set to None and
\* auth.password is not set.
C9_Witness ==
    /\ last.op = "roundtrip"
    /\ "conn.host" \in DOMAIN settings
    /\ settings["conn.host"] = None_
    /\ "auth.password" \notin DOMAIN settings
    /\ getitem(reloaded, "conn.host").val = None_

====
